---- MODULE Spec2Model ----
(***************************************************************************)
(* Model of the shared-display backend: the single-slot media store        *)
(* (state.rs), the last_media view handler (handlers/media.rs), the upload *)
(* handlers (handlers/upload.rs) and the background cleanup task           *)
(* (main.rs).  Every action is one run of a task between two await points. *)
(***************************************************************************)
EXTENDS Integers, Sequences, FiniteSets, TLC

----------------------------------------------------------------------------
(* Bounds and inputs *)

\* total number of uploads (media and sound) that are started in a run
MaxUploads == 2

\* deletion_threshold of the cleanup task, in seconds
DeletionThreshold == 10

\* the instants (seconds) at which the clock is looked at; they give the
\* ages 0 (fresh) and 11 (over the threshold)
Instants == {0, 11}

\* client addresses; NoIp stands for addr == None
Viewers == {"10.0.0.1", "10.0.0.2"}
NoIp == "none"

\* file names that pass is_valid_media_type / is_valid_sound_type;
\* "x.ogg" passes both
MediaNames == {"a.jpg", "x.ogg"}
SoundNames == {"x.ogg"}

\* concurrent last_media requests, upload requests
Requests == {"r1", "r2"}
Uploaders == {"u1"}

\* the tasks that can hold the store lock across an await
NoTask == "free"

\* the connections to /ws
Conns == {"c1", "c2"}

\* broadcast::channel(100)
ChannelCapacity == 100

----------------------------------------------------------------------------
(* Option<T>: None is the empty sequence, Some(x) the one-element sequence *)

None == << >>
Some(x) == << x >>
IsSome(o) == o /= << >>
Unwrap(o) == o[1]

----------------------------------------------------------------------------
(* state.rs *)

\* MediaType, from the extension (upload.rs detect_media_type)
detect_media_type(filename) ==
    IF filename \in {"x.ogg"} THEN "Video" ELSE "Image"

\* MediaInfo; id is the sequence number of the slot write that stored the
\* value: it stands for the identity of the upload and is not read by
\* any operation
MediaInfo(filename, upload_time, id) ==
    [filename |-> filename,
     media_type |-> detect_media_type(filename),
     upload_time |-> upload_time,
     marked_for_deletion |-> FALSE,
     id |-> id]

SoundInfo(filename, upload_time) ==
    [filename |-> filename,
     upload_time |-> upload_time,
     marked_for_deletion |-> FALSE]

\* set_last_media that keeps an occupant instead of replacing it
set_last_media_keep(lm, media) == IF IsSome(lm) THEN lm ELSE Some(media)

\* set_last_media that replaces the occupant only by a later upload_time
set_last_media_newer(lm, media) ==
    IF IsSome(lm)
    THEN IF media.upload_time > Unwrap(lm).upload_time THEN Some(media) ELSE lm
    ELSE Some(media)

\* MediaViewState::set_last_media
set_last_media(lm, media) == Some(media)

\* MediaViewState::set_last_sound
set_last_sound(ls, sound) == Some(sound)

\* mark_viewed that overwrites the set of a filename instead of extending it
mark_viewed_overwrite(vb, filename, ip) ==
    IF filename \in DOMAIN vb
    THEN [vb EXCEPT ![filename] = {ip}]
    ELSE vb @@ (filename :> {ip})

\* mark_viewed that records the view for every address
mark_viewed_everyone(vb, filename, ip) ==
    IF filename \in DOMAIN vb
    THEN [vb EXCEPT ![filename] = Viewers]
    ELSE vb @@ (filename :> Viewers)

\* MediaViewState::mark_viewed, the new viewed_by map
mark_viewed(vb, filename, ip) ==
    IF filename \in DOMAIN vb
    THEN [vb EXCEPT ![filename] = @ \cup {ip}]
    ELSE vb @@ (filename :> {ip})

\* mark_viewed that reports every call as a first view
mark_viewed_ret_always(vb, filename, ip) == TRUE

\* MediaViewState::mark_viewed, the value of HashSet::insert
mark_viewed_ret(vb, filename, ip) ==
    IF filename \in DOMAIN vb THEN ip \notin vb[filename] ELSE TRUE

\* MediaViewState::has_been_viewed
has_been_viewed(vb, filename, ip) ==
    IF filename \in DOMAIN vb THEN ip \in vb[filename] ELSE FALSE

\* get_last_media_for_ip without the marked_for_deletion test
get_last_media_for_ip_flagged(lm, vb, ip) ==
    IF IsSome(lm)
    THEN IF ~has_been_viewed(vb, Unwrap(lm).filename, ip) THEN lm ELSE None
    ELSE None

\* MediaViewState::get_last_media_for_ip
get_last_media_for_ip(lm, vb, ip) ==
    IF IsSome(lm)
    THEN IF ~has_been_viewed(vb, Unwrap(lm).filename, ip)
            /\ ~Unwrap(lm).marked_for_deletion
         THEN lm
         ELSE None
    ELSE None

\* mark_for_deletion with the filename test inverted
mark_for_deletion_other(lm, filename) ==
    IF IsSome(lm)
    THEN IF Unwrap(lm).filename /= filename
         THEN Some([Unwrap(lm) EXCEPT !.marked_for_deletion = TRUE])
         ELSE lm
    ELSE lm

\* mark_for_deletion without the filename test
mark_for_deletion_any(lm, filename) ==
    IF IsSome(lm)
    THEN Some([Unwrap(lm) EXCEPT !.marked_for_deletion = TRUE])
    ELSE lm

\* MediaViewState::mark_for_deletion
mark_for_deletion(lm, filename) ==
    IF IsSome(lm)
    THEN IF Unwrap(lm).filename = filename
         THEN Some([Unwrap(lm) EXCEPT !.marked_for_deletion = TRUE])
         ELSE lm
    ELSE lm

\* get_files_to_delete with < in place of >
get_files_to_delete_younger(lm, t, threshold) ==
    IF IsSome(lm)
    THEN IF t >= Unwrap(lm).upload_time
         THEN IF t - Unwrap(lm).upload_time < threshold
                 /\ ~Unwrap(lm).marked_for_deletion
              THEN << Unwrap(lm).filename >>
              ELSE << >>
         ELSE << >>
    ELSE << >>

\* get_files_to_delete with >= in place of >
get_files_to_delete_inclusive(lm, t, threshold) ==
    IF IsSome(lm)
    THEN IF t >= Unwrap(lm).upload_time
         THEN IF t - Unwrap(lm).upload_time >= threshold
                 /\ ~Unwrap(lm).marked_for_deletion
              THEN << Unwrap(lm).filename >>
              ELSE << >>
         ELSE << >>
    ELSE << >>

\* MediaViewState::get_files_to_delete; t is SystemTime::now()
get_files_to_delete(lm, t, threshold) ==
    IF IsSome(lm)
    THEN IF t >= Unwrap(lm).upload_time
         THEN IF t - Unwrap(lm).upload_time > threshold
                 /\ ~Unwrap(lm).marked_for_deletion
              THEN << Unwrap(lm).filename >>
              ELSE << >>
         ELSE << >>
    ELSE << >>

\* MediaViewState::remove_file_from_state, the three fields
remove_file_media(lm, filename) ==
    IF IsSome(lm)
    THEN IF Unwrap(lm).filename = filename THEN None ELSE lm
    ELSE lm

remove_file_sound(ls, filename) ==
    IF IsSome(ls)
    THEN IF Unwrap(ls).filename = filename THEN None ELSE ls
    ELSE ls

\* remove_file_from_state that leaves the ledger entry in place
remove_file_viewed_keep(vb, filename) == vb

remove_file_viewed(vb, filename) ==
    [g \in (DOMAIN vb) \ {filename} |-> vb[g]]

----------------------------------------------------------------------------
(* State *)

\* the number of the slot write that stored the occupant
SlotId(lm) == IF IsSome(lm) THEN Some(Unwrap(lm).id) ELSE None

-----------------------------------------------------------------------------
(* websocket.rs: the events and the tokio broadcast channel *)

\* utf8_percent_encode(&uri, FRAGMENT): a control character, a space, a
\* double quote, <, > or ` becomes its %XX escape, every other character
\* stays
utf8_percent_encode(uri) ==
    IF uri = "my song.ogg" THEN "my%20song.ogg" ELSE uri

\* broadcast_new_media under the event name "media"
MediaEventMedia == [event |-> "media", url |-> << "/?ws=true" >>]

\* broadcast_new_media: the url is the concatenation of the parts
MediaEvent == [event |-> "browser_backend", url |-> << "/?ws=true" >>]

\* broadcast_new_song
SongEvent(uri) ==
    [event |-> "song",
     url |-> << "/sounds/", utf8_percent_encode(uri), "?ws=true" >>]

\* broadcast_new_browser_raw; no handler calls it
RawEvent(url) == [event |-> "browser_raw", url |-> << url >>]

\* broadcast_video_event
VideoEvent(filename) == [event |-> "video", url |-> << "/uploads/", filename >>]

\* broadcast::Sender::receiver_count: the receivers not yet dropped
receiver_count(alive) == Cardinality({c \in DOMAIN alive : alive[c]})

\* broadcast::Sender::send: with no receiver the message is returned in an
\* Err and nothing is stored; otherwise it is appended for every receiver
send(log, rx_cnt, msg) == IF rx_cnt = 0 THEN log ELSE Append(log, msg)

\* a subscribe that hands the new receiver the messages already sent
subscribe_replay(log) == 0

\* broadcast::Sender::subscribe: the new receiver starts after the last
\* message sent so far
subscribe(log) == Len(log)

\* usize::next_power_of_two
RECURSIVE pow2_from(_, _)
pow2_from(p, n) == IF p >= n THEN p ELSE pow2_from(2 * p, n)

next_power_of_two(n) == pow2_from(1, n)

\* broadcast::channel rounds the capacity it is given up to a power of two
\* and allocates a ring of that many slots
ring_size == next_power_of_two(ChannelCapacity)

\* a channel that never overwrites a slot a receiver has not read
lagged_never(log, next) == FALSE

\* broadcast::Receiver::recv on a receiver whose next message was
\* overwritten in the ring: Err(Lagged)
lagged(log, next) == Len(log) - next > ring_size

-----------------------------------------------------------------------------
(* utils.rs. A path is the sequence of its characters; "uploads", "sounds"
   and "a" stand for characters that are neither a separator, a dot nor one
   of the characters sanitize_filename filters out. *)

\* the characters of the user paths
PathChars == {"a", ".", "/", ":"}

\* the base directories of the two call sites
Bases == { << "uploads" >>, << "sounds" >> }

\* the segments of a path between its separators
RECURSIVE Split(_)
Split(s) ==
    IF s = << >>
    THEN << << >> >>
    ELSE LET rest == Split(Tail(s))
         IN  IF Head(s) = "/"
             THEN << << >> >> \o rest
             ELSE << << Head(s) >> \o Head(rest) >> \o Tail(rest)

\* std::path::Path::has_root
has_root(s) == s /= << >> /\ s[1] = "/"

\* the components of the segments from the i-th on: repeated separators
\* and a dot are dropped, except a dot that starts a relative path
RECURSIVE segment_components(_, _, _)
segment_components(segs, i, root) ==
    IF i > Len(segs)
    THEN << >>
    ELSE LET g == segs[i]
             c == IF g = << >>
                  THEN << >>
                  ELSE IF g = << "." >>
                  THEN IF i = 1 /\ ~root
                       THEN << [kind |-> "CurDir", name |-> g] >>
                       ELSE << >>
                  ELSE IF g = << ".", "." >>
                  THEN << [kind |-> "ParentDir", name |-> g] >>
                  ELSE << [kind |-> "Normal", name |-> g] >>
         IN  c \o segment_components(segs, i + 1, root)

\* std::path::Path::components
components(s) ==
    (IF has_root(s) THEN << [kind |-> "RootDir", name |-> << "/" >>] >>
                    ELSE << >>)
       \o segment_components(Split(s), 1, has_root(s))

\* std::path::Path::file_name
file_name(s) ==
    LET cs == components(s)
    IN  IF cs /= << >> /\ cs[Len(cs)].kind = "Normal"
        THEN Some(cs[Len(cs)].name)
        ELSE None

\* the characters sanitize_filename filters out
is_special(c) == c \in {"<", ">", ":", "\"", "|", "?", "*"}

\* chars().filter(..).collect()
RECURSIVE filter_special(_)
filter_special(s) ==
    IF s = << >>
    THEN << >>
    ELSE IF is_special(Head(s))
         THEN filter_special(Tail(s))
         ELSE << Head(s) >> \o filter_special(Tail(s))

\* sanitize_filename without the test of the filtered name
sanitize_filename_unchecked(filename) ==
    IF IsSome(file_name(filename))
    THEN Some(filter_special(Unwrap(file_name(filename))))
    ELSE None

\* utils::sanitize_filename
sanitize_filename(filename) ==
    IF IsSome(file_name(filename))
    THEN LET sanitized == filter_special(Unwrap(file_name(filename)))
         IN  IF sanitized = << >> \/ sanitized = << "." >>
                \/ sanitized = << ".", "." >>
             THEN None
             ELSE Some(sanitized)
    ELSE None

\* the loop of validate_file_path over the components from the i-th on;
\* resolved is the PathBuf as the sequence of its components
RECURSIVE resolve(_, _, _, _)
resolve(cs, i, resolved_path, virtual_depth) ==
    IF i > Len(cs)
    THEN resolved_path
    ELSE IF cs[i].kind \in {"Prefix", "RootDir", "CurDir"}
    THEN resolve(cs, i + 1, resolved_path, virtual_depth)
    ELSE IF cs[i].kind = "ParentDir"
    THEN IF virtual_depth > 0
         THEN resolve(cs, i + 1,
                      SubSeq(resolved_path, 1, Len(resolved_path) - 1),
                      virtual_depth - 1)
         ELSE resolve(cs, i + 1, resolved_path, virtual_depth)
    ELSE resolve(cs, i + 1, Append(resolved_path, cs[i].name),
                 virtual_depth + 1)

\* the same loop with a ParentDir that is kept when there is nothing to pop
RECURSIVE resolve_keep_parent(_, _, _, _)
resolve_keep_parent(cs, i, resolved_path, virtual_depth) ==
    IF i > Len(cs)
    THEN resolved_path
    ELSE IF cs[i].kind \in {"Prefix", "RootDir", "CurDir"}
    THEN resolve_keep_parent(cs, i + 1, resolved_path, virtual_depth)
    ELSE IF cs[i].kind = "ParentDir"
    THEN IF virtual_depth > 0
         THEN resolve_keep_parent(cs, i + 1,
                      SubSeq(resolved_path, 1, Len(resolved_path) - 1),
                      virtual_depth - 1)
         ELSE resolve_keep_parent(cs, i + 1,
                      Append(resolved_path, cs[i].name), virtual_depth)
    ELSE resolve_keep_parent(cs, i + 1, Append(resolved_path, cs[i].name),
                             virtual_depth + 1)

\* the string of a PathBuf built by push from relative components
RECURSIVE path_string(_)
path_string(resolved_path) ==
    IF resolved_path = << >>
    THEN << >>
    ELSE IF Len(resolved_path) = 1
         THEN Head(resolved_path)
         ELSE Head(resolved_path) \o << "/" >>
                 \o path_string(Tail(resolved_path))

\* std::path::Path::join: an absolute argument replaces the base, otherwise
\* a separator is added unless the base is empty or ends with one
join(base, path) ==
    IF has_root(path)
    THEN path
    ELSE base
           \o (IF base /= << >> /\ base[Len(base)] /= "/"
               THEN << "/" >> ELSE << >>)
           \o path

\* std::path::Path::starts_with: a prefix of whole components
starts_with(path, base) ==
    LET cp == components(path)
        cb == components(base)
    IN  Len(cb) <= Len(cp) /\ SubSeq(cp, 1, Len(cb)) = cb

\* validate_file_path that keeps a leading ParentDir
validate_file_path_keep_parent(base_dir, user_path) ==
    IF user_path = << >>
    THEN Some(base_dir)
    ELSE LET resolved_path == resolve_keep_parent(components(user_path), 1,
                                                  << >>, 0)
             full_path == join(base_dir, path_string(resolved_path))
         IN  IF starts_with(full_path, base_dir)
             THEN Some(full_path)
             ELSE None

\* utils::validate_file_path
validate_file_path(base_dir, user_path) ==
    IF user_path = << >>
    THEN Some(base_dir)
    ELSE LET resolved_path == resolve(components(user_path), 1, << >>, 0)
             full_path == join(base_dir, path_string(resolved_path))
         IN  IF starts_with(full_path, base_dir)
             THEN Some(full_path)
             ELSE None

VARIABLES
    now,         \* the system clock
    last_media,  \* MediaViewState.last_media
    last_sound,  \* MediaViewState.last_sound
    viewed_by,   \* MediaViewState.viewed_by
    uploads,     \* the files in uploads/
    sounds,      \* the files in sounds/
    writer,      \* the task that holds the store lock across an await
    vpc,         \* last_media handler: position of each request
    vip,         \* last_media handler: client_ip
    vgot,        \* last_media handler: media_info
    mark_ret,    \* value returned by the latest mark_viewed call
    upc,         \* upload handlers: position
    ufile,       \* upload handlers: filename
    utime,       \* upload handlers: upload_time of the info being stored
    uid,         \* upload handlers: number of the media slot write made
    spc,         \* cleanup task: position
    sfiles,      \* cleanup task: files_to_delete still to process
    nextId,      \* number of the next slot write
    started,     \* number of uploads started
    completed,   \* number of the latest media slot write whose lock is released
    served,      \* the addresses the current occupant of the media slot was
                 \* rendered to in a response
    superseded,  \* the filenames whose latest occupant was replaced by an
                 \* item of another name while its age was within the
                 \* threshold
    hub_log,     \* broadcast channel: the messages accepted by send, in order
    in_alive,    \* handle_websocket: the incoming task of a connection runs
    out_alive,   \* handle_websocket: the outgoing task runs and holds rx
    rx_next,     \* broadcast Receiver: number of messages before its next one
    sub_at,      \* the length of hub_log when the connection subscribed
    closed_at,   \* the length of hub_log when the incoming task ended
    delivered,   \* the positions in hub_log of the messages the outgoing
                 \* task sent on the socket
    arg_base,    \* utils: the base_dir of the call
    arg_path,    \* utils: the filename or user_path of the call
    ret_name,    \* utils: the value sanitize_filename returned
    ret_path,    \* utils: the value validate_file_path returned
    pathpc       \* utils: which of the two functions have been called

vars == << now, last_media, last_sound, viewed_by, uploads, sounds, writer,
           vpc, vip, vgot, mark_ret, upc, ufile, utime, uid, spc, sfiles,
           nextId, started, completed, served, superseded, hub_log,
           in_alive, out_alive, rx_next, sub_at, closed_at, delivered,
           arg_base, arg_path, ret_name, ret_path, pathpc >>

\* the arguments and results of the calls into utils.rs
pathVars == << arg_base, arg_path, ret_name, ret_path, pathpc >>

\* the state of the connections to /ws
connVars == << in_alive, out_alive, rx_next, sub_at, closed_at, delivered >>

\* the broadcast channel and its receivers
hubVars == << hub_log, connVars >>

Init ==
    /\ now = 0
    /\ last_media = None
    /\ last_sound = None
    /\ viewed_by = << >>
    /\ uploads = {}
    /\ sounds = {}
    /\ writer = NoTask
    /\ vpc = [r \in Requests |-> "idle"]
    /\ vip = [r \in Requests |-> NoIp]
    /\ vgot = [r \in Requests |-> None]
    /\ mark_ret = None
    /\ upc = [u \in Uploaders |-> "idle"]
    /\ ufile = [u \in Uploaders |-> ""]
    /\ utime = [u \in Uploaders |-> 0]
    /\ uid = [u \in Uploaders |-> 0]
    /\ spc = "sleep"
    /\ sfiles = << >>
    /\ nextId = 1
    /\ started = 0
    /\ completed = 0
    /\ served = {}
    /\ superseded = {}
    /\ hub_log = << >>
    /\ in_alive = [c \in Conns |-> FALSE]
    /\ out_alive = [c \in Conns |-> FALSE]
    /\ rx_next = [c \in Conns |-> 0]
    /\ sub_at = [c \in Conns |-> 0]
    /\ closed_at = [c \in Conns |-> 0]
    /\ delivered = [c \in Conns |-> << >>]
    /\ arg_base = << >>
    /\ arg_path = << >>
    /\ ret_name = None
    /\ ret_path = None
    /\ pathpc = "none"

----------------------------------------------------------------------------
(* The clock *)

Tick ==
    /\ \E t \in Instants : t > now /\ now' = t
    /\ UNCHANGED << last_media, last_sound, viewed_by, uploads, sounds,
                    writer, vpc, vip, vgot, mark_ret, upc, ufile, utime, uid,
                    spc, sfiles, nextId, started, completed, served >>
    /\ UNCHANGED << superseded, hubVars, pathVars >>

----------------------------------------------------------------------------
(* handlers/media.rs: last_media *)

\* the request arrives and sleeps 100 ms; the requests being
\* interchangeable, r2 is taken only while r1 is under way
ViewStart(r) ==
    /\ vpc[r] = "idle"
    /\ r = "r2" => vpc["r1"] /= "idle"
    /\ vpc' = [vpc EXCEPT ![r] = "read"]
    /\ UNCHANGED << now, last_media, last_sound, viewed_by, uploads, sounds,
                    writer, vip, vgot, mark_ret, upc, ufile, utime, uid, spc,
                    sfiles, nextId, started, completed, served >>
    /\ UNCHANGED << superseded, hubVars, pathVars >>

\* client_ip is taken from addr (ip; NoIp when there is none), then
\* state.read(): get_last_media_for_ip, the read guard is dropped; with
\* nothing to show the empty template is rendered and the handler returns
ViewRead(r, ip) ==
    /\ vpc[r] = "read"
    /\ writer = NoTask
    /\ LET media_info == IF ip = NoIp
                         THEN None
                         ELSE get_last_media_for_ip(last_media, viewed_by, ip)
       IN  IF IsSome(media_info)
           THEN /\ vgot' = [vgot EXCEPT ![r] = media_info]
                /\ vpc' = [vpc EXCEPT ![r] = "mark"]
                /\ vip' = [vip EXCEPT ![r] = ip]
           ELSE /\ vgot' = [vgot EXCEPT ![r] = None]
                /\ vpc' = [vpc EXCEPT ![r] = "idle"]
                /\ vip' = [vip EXCEPT ![r] = NoIp]
    /\ UNCHANGED << now, last_media, last_sound, viewed_by, uploads, sounds,
                    writer, mark_ret, upc, ufile, utime, uid, spc, sfiles,
                    nextId, started, completed, served >>
    /\ UNCHANGED << superseded, hubVars, pathVars >>

\* state.write(): mark_viewed, then the template is rendered with
\* media_info and the handler returns
ViewMark(r) ==
    /\ vpc[r] = "mark"
    /\ writer = NoTask
    /\ viewed_by' = mark_viewed(viewed_by, Unwrap(vgot[r]).filename, vip[r])
    /\ mark_ret' = Some(mark_viewed_ret(viewed_by, Unwrap(vgot[r]).filename, vip[r]))
    /\ served' = IF Some(Unwrap(vgot[r]).id) = SlotId(last_media)
                 THEN served \cup {vip[r]}
                 ELSE served
    /\ vpc' = [vpc EXCEPT ![r] = "idle"]
    /\ vip' = [vip EXCEPT ![r] = NoIp]
    /\ vgot' = [vgot EXCEPT ![r] = None]
    /\ UNCHANGED << now, last_media, last_sound, uploads, sounds, writer,
                    upc, ufile, utime, uid, spc, sfiles, nextId, started,
                    completed >>
    /\ UNCHANGED << superseded, hubVars, pathVars >>

----------------------------------------------------------------------------
(* handlers/upload.rs: upload_image, upload_sound *)

\* an upload that announces the file as soon as it is written
UploadSavePublish(u, filename) ==
    /\ upc[u] = "idle"
    /\ started < MaxUploads
    /\ started' = started + 1
    /\ uploads' = uploads \cup {filename}
    /\ ufile' = [ufile EXCEPT ![u] = filename]
    /\ utime' = [utime EXCEPT ![u] = now]
    /\ upc' = [upc EXCEPT ![u] = "commit"]
    /\ hub_log' = send(hub_log, receiver_count(out_alive), MediaEvent)
    /\ UNCHANGED << now, last_media, last_sound, viewed_by, sounds, writer,
                    vpc, vip, vgot, mark_ret, spc, sfiles, nextId, completed,
                    served >>
    /\ UNCHANGED << superseded, connVars, pathVars >>
    /\ UNCHANGED uid

\* save_uploaded_file writes uploads/filename, create_media_info reads the
\* clock
UploadSave(u, filename) ==
    /\ upc[u] = "idle"
    /\ started < MaxUploads
    /\ started' = started + 1
    /\ uploads' = uploads \cup {filename}
    /\ ufile' = [ufile EXCEPT ![u] = filename]
    /\ utime' = [utime EXCEPT ![u] = now]
    /\ upc' = [upc EXCEPT ![u] = "commit"]
    /\ UNCHANGED << now, last_media, last_sound, viewed_by, sounds, writer,
                    vpc, vip, vgot, mark_ret, spc, sfiles, nextId, completed,
                    served >>
    /\ UNCHANGED << superseded, hubVars, pathVars >>
    /\ UNCHANGED uid

\* a slot write that also drops the ledger entry of the item it replaces
UploadCommitPrune(u) ==
    /\ upc[u] = "commit"
    /\ writer = NoTask
    /\ writer' = u
    /\ last_media' = set_last_media(last_media,
                                    MediaInfo(ufile[u], utime[u], nextId))
    /\ viewed_by' = IF IsSome(last_media)
                    THEN remove_file_viewed(viewed_by,
                                            Unwrap(last_media).filename)
                    ELSE viewed_by
    /\ nextId' = nextId + 1
    /\ uid' = [uid EXCEPT ![u] = nextId]
    /\ served' = {}
    /\ upc' = [upc EXCEPT ![u] = "locked"]
    /\ UNCHANGED << now, last_sound, uploads, sounds, vpc, vip,
                    vgot, mark_ret, ufile, utime, spc, sfiles, started,
                    completed >>
    /\ superseded' = IF /\ IsSome(last_media)
                        /\ Unwrap(last_media).filename /= ufile[u]
                        /\ now - Unwrap(last_media).upload_time
                             <= DeletionThreshold
                     THEN (superseded \cup {Unwrap(last_media).filename})
                              \ {ufile[u]}
                     ELSE superseded \ {ufile[u]}
    /\ UNCHANGED << hubVars, pathVars >>

\* update_state_and_broadcast: state.write(), set_last_media
UploadCommit(u) ==
    /\ upc[u] = "commit"
    /\ writer = NoTask
    /\ writer' = u
    /\ last_media' = set_last_media(last_media,
                                    MediaInfo(ufile[u], utime[u], nextId))
    /\ nextId' = nextId + 1
    /\ uid' = [uid EXCEPT ![u] = nextId]
    /\ served' = {}
    /\ upc' = [upc EXCEPT ![u] = "locked"]
    /\ UNCHANGED << now, last_sound, viewed_by, uploads, sounds, vpc, vip,
                    vgot, mark_ret, ufile, utime, spc, sfiles, started,
                    completed >>
    /\ superseded' = IF /\ IsSome(last_media)
                        /\ Unwrap(last_media).filename /= ufile[u]
                        /\ now - Unwrap(last_media).upload_time
                             <= DeletionThreshold
                     THEN (superseded \cup {Unwrap(last_media).filename})
                              \ {ufile[u]}
                     ELSE superseded \ {ufile[u]}
    /\ UNCHANGED << hubVars, pathVars >>

\* a broadcast that waits until every receiver has room for the message
UploadReleaseBlocking(u) ==
    /\ upc[u] = "locked"
    /\ writer = u
    /\ \A c \in Conns :
          out_alive[c] => Len(hub_log) - rx_next[c] < ChannelCapacity
    /\ writer' = NoTask
    /\ completed' = nextId - 1
    /\ IF detect_media_type(ufile[u]) = "Video"
       THEN /\ upc' = [upc EXCEPT ![u] = "video"]
            /\ UNCHANGED << ufile, utime >>
       ELSE /\ upc' = [upc EXCEPT ![u] = "idle"]
            /\ ufile' = [ufile EXCEPT ![u] = ""]
            /\ utime' = [utime EXCEPT ![u] = 0]
    /\ UNCHANGED << now, last_media, last_sound, viewed_by, uploads, sounds,
                    vpc, vip, vgot, mark_ret, spc, sfiles, nextId, started,
                    served >>
    /\ hub_log' = IF detect_media_type(ufile[u]) = "Video"
                  THEN hub_log
                  ELSE send(hub_log, receiver_count(out_alive), MediaEvent)
    /\ UNCHANGED << superseded, connVars, pathVars >>
    /\ UNCHANGED uid

\* a handler that returns without dropping the write guard
UploadReleaseKeep(u) ==
    /\ upc[u] = "locked"
    /\ writer = u
    /\ writer' = writer
    /\ completed' = nextId - 1
    /\ IF detect_media_type(ufile[u]) = "Video"
       THEN /\ upc' = [upc EXCEPT ![u] = "video"]
            /\ UNCHANGED << ufile, utime >>
       ELSE /\ upc' = [upc EXCEPT ![u] = "idle"]
            /\ ufile' = [ufile EXCEPT ![u] = ""]
            /\ utime' = [utime EXCEPT ![u] = 0]
    /\ UNCHANGED << now, last_media, last_sound, viewed_by, uploads, sounds,
                    vpc, vip, vgot, mark_ret, spc, sfiles, nextId, started,
                    served >>
    /\ hub_log' = IF detect_media_type(ufile[u]) = "Video"
                  THEN hub_log
                  ELSE send(hub_log, receiver_count(out_alive), MediaEvent)
    /\ UNCHANGED << superseded, connVars, pathVars >>
    /\ UNCHANGED uid

\* update_state_and_broadcast returns (after broadcast_new_media for an
\* image) and the write guard is dropped; for an image the handler returns
\* and its locals are gone
UploadRelease(u) ==
    /\ upc[u] = "locked"
    /\ writer = u
    /\ writer' = NoTask
    /\ completed' = nextId - 1
    /\ IF detect_media_type(ufile[u]) = "Video"
       THEN /\ upc' = [upc EXCEPT ![u] = "video"]
            /\ UNCHANGED << ufile, utime >>
       ELSE /\ upc' = [upc EXCEPT ![u] = "idle"]
            /\ ufile' = [ufile EXCEPT ![u] = ""]
            /\ utime' = [utime EXCEPT ![u] = 0]
    /\ UNCHANGED << now, last_media, last_sound, viewed_by, uploads, sounds,
                    vpc, vip, vgot, mark_ret, spc, sfiles, nextId, started,
                    served >>
    /\ hub_log' = IF detect_media_type(ufile[u]) = "Video"
                  THEN hub_log
                  ELSE send(hub_log, receiver_count(out_alive), MediaEvent)
    /\ UNCHANGED << superseded, connVars, pathVars >>
    /\ UNCHANGED uid

\* broadcast_video_event, then the handler returns
UploadVideoEvent(u) ==
    /\ upc[u] = "video"
    /\ upc' = [upc EXCEPT ![u] = "idle"]
    /\ ufile' = [ufile EXCEPT ![u] = ""]
    /\ utime' = [utime EXCEPT ![u] = 0]
    /\ UNCHANGED << now, last_media, last_sound, viewed_by, uploads, sounds,
                    writer, vpc, vip, vgot, mark_ret, spc, sfiles, nextId,
                    started, completed, served >>
    /\ hub_log' = send(hub_log, receiver_count(out_alive),
                       VideoEvent(ufile[u]))
    /\ UNCHANGED << superseded, connVars, pathVars >>
    /\ UNCHANGED uid

\* upload_sound: the file is written to sounds/, SoundInfo reads the clock
UploadSoundSave(u, filename) ==
    /\ upc[u] = "idle"
    /\ started < MaxUploads
    /\ started' = started + 1
    /\ sounds' = sounds \cup {filename}
    /\ ufile' = [ufile EXCEPT ![u] = filename]
    /\ utime' = [utime EXCEPT ![u] = now]
    /\ upc' = [upc EXCEPT ![u] = "scommit"]
    /\ UNCHANGED << now, last_media, last_sound, viewed_by, uploads, writer,
                    vpc, vip, vgot, mark_ret, spc, sfiles, nextId, completed,
                    served >>
    /\ UNCHANGED << superseded, hubVars, pathVars >>
    /\ UNCHANGED uid

\* upload_sound: state.write(), set_last_sound
UploadSoundCommit(u) ==
    /\ upc[u] = "scommit"
    /\ writer = NoTask
    /\ writer' = u
    /\ last_sound' = set_last_sound(last_sound, SoundInfo(ufile[u], utime[u]))
    /\ upc' = [upc EXCEPT ![u] = "slocked"]
    /\ UNCHANGED << now, last_media, viewed_by, uploads, sounds, vpc, vip,
                    vgot, mark_ret, ufile, utime, uid, spc, sfiles, nextId,
                    started, completed, served >>
    /\ UNCHANGED << superseded, hubVars, pathVars >>

\* upload_sound returns after broadcast_new_song, the write guard is dropped
UploadSoundRelease(u) ==
    /\ upc[u] = "slocked"
    /\ writer = u
    /\ writer' = NoTask
    /\ upc' = [upc EXCEPT ![u] = "idle"]
    /\ ufile' = [ufile EXCEPT ![u] = ""]
    /\ utime' = [utime EXCEPT ![u] = 0]
    /\ UNCHANGED << now, last_media, last_sound, viewed_by, uploads, sounds,
                    vpc, vip, vgot, mark_ret, spc, sfiles, nextId, started,
                    completed, served >>
    /\ hub_log' = send(hub_log, receiver_count(out_alive),
                       SongEvent(ufile[u]))
    /\ UNCHANGED << superseded, connVars, pathVars >>
    /\ UNCHANGED uid

----------------------------------------------------------------------------
(* main.rs: start_cleanup_task *)

\* the 1 s sleep ends; state.read(): get_files_to_delete
SweepList ==
    /\ spc = "sleep"
    /\ writer = NoTask
    /\ sfiles' = get_files_to_delete(last_media, now, DeletionThreshold)
    /\ spc' = "loop"
    /\ UNCHANGED << now, last_media, last_sound, viewed_by, uploads, sounds,
                    writer, vpc, vip, vgot, mark_ret, upc, ufile, utime, uid,
                    nextId, started, completed, served >>
    /\ UNCHANGED << superseded, hubVars, pathVars >>

\* the for loop is over, the task sleeps again
SweepSleep ==
    /\ spc = "loop"
    /\ sfiles = << >>
    /\ spc' = "sleep"
    /\ UNCHANGED << now, last_media, last_sound, viewed_by, uploads, sounds,
                    writer, vpc, vip, vgot, mark_ret, upc, ufile, utime, uid,
                    sfiles, nextId, started, completed, served >>
    /\ UNCHANGED << superseded, hubVars, pathVars >>

\* a remove_file that runs inside the store's exclusive section
SweepDeleteLocked(ok) ==
    /\ spc = "loop"
    /\ sfiles /= << >>
    /\ writer = NoTask
    /\ ok => Head(sfiles) \in uploads
    /\ uploads' = IF ok THEN uploads \ {Head(sfiles)} ELSE uploads
    /\ spc' = IF ok THEN "remove" ELSE "flag"
    /\ UNCHANGED << now, last_media, last_sound, viewed_by, sounds, writer,
                    vpc, vip, vgot, mark_ret, upc, ufile, utime, uid, sfiles,
                    nextId, started, completed, served >>
    /\ UNCHANGED << superseded, hubVars, pathVars >>

\* tokio::fs::remove_file("uploads/<filename>"): it fails when the file is
\* not there and may fail for any other reason
SweepDelete(ok) ==
    /\ spc = "loop"
    /\ sfiles /= << >>
    /\ ok => Head(sfiles) \in uploads
    /\ uploads' = IF ok THEN uploads \ {Head(sfiles)} ELSE uploads
    /\ spc' = IF ok THEN "remove" ELSE "flag"
    /\ UNCHANGED << now, last_media, last_sound, viewed_by, sounds, writer,
                    vpc, vip, vgot, mark_ret, upc, ufile, utime, uid, sfiles,
                    nextId, started, completed, served >>
    /\ UNCHANGED << superseded, hubVars, pathVars >>

\* Ok arm: state.write(), remove_file_from_state
SweepRemove ==
    /\ spc = "remove"
    /\ writer = NoTask
    /\ last_media' = remove_file_media(last_media, Head(sfiles))
    /\ last_sound' = remove_file_sound(last_sound, Head(sfiles))
    /\ viewed_by' = remove_file_viewed(viewed_by, Head(sfiles))
    /\ sfiles' = Tail(sfiles)
    /\ spc' = "loop"
    /\ served' = IF IsSome(last_media') THEN served ELSE {}
    /\ UNCHANGED << now, uploads, sounds, writer, vpc, vip, vgot, mark_ret,
                    upc, ufile, utime, uid, nextId, started, completed >>
    /\ UNCHANGED << superseded, hubVars, pathVars >>

\* Err arm: state.write(), mark_for_deletion
SweepFlag ==
    /\ spc = "flag"
    /\ writer = NoTask
    /\ last_media' = mark_for_deletion(last_media, Head(sfiles))
    /\ sfiles' = Tail(sfiles)
    /\ spc' = "loop"
    /\ UNCHANGED << now, last_sound, viewed_by, uploads, sounds, writer,
                    vpc, vip, vgot, mark_ret, upc, ufile, utime, uid, nextId,
                    started, completed, served >>
    /\ UNCHANGED << superseded, hubVars, pathVars >>

----------------------------------------------------------------------------

Next ==
    \/ Tick
    \/ \E r \in Requests : ViewStart(r)
    \/ \E r \in Requests, ip \in Viewers \cup {NoIp} : ViewRead(r, ip)
    \/ \E r \in Requests : ViewMark(r)
    \/ \E u \in Uploaders, f \in MediaNames : UploadSave(u, f)
    \/ \E u \in Uploaders : UploadCommit(u)
    \/ \E u \in Uploaders : UploadRelease(u)
    \/ \E u \in Uploaders : UploadVideoEvent(u)
    \/ \E u \in Uploaders, f \in SoundNames : UploadSoundSave(u, f)
    \/ \E u \in Uploaders : UploadSoundCommit(u)
    \/ \E u \in Uploaders : UploadSoundRelease(u)
    \/ SweepList
    \/ SweepSleep
    \/ \E ok \in BOOLEAN : SweepDelete(ok)
    \/ SweepRemove
    \/ SweepFlag

Spec == Init /\ [][Next]_vars


-----------------------------------------------------------------------------
(* The program under fair scheduling. The cleanup task is a spawned tokio
   task whose loop never ends: each of its steps is eventually taken, and
   tokio's RwLock queues its waiters first-in first-out, so a sweep step
   that waits for the store lock is granted once the holder releases it
   (strong fairness). An upload handler that holds the write lock runs to
   the end of its critical section (weak fairness). One last_media request
   runs at a time: the handler holds no lock across an await and writes the
   ledger only, which the sweep does not read. *)

SweepStep ==
    \/ SweepList
    \/ SweepSleep
    \/ \E ok \in BOOLEAN : SweepDelete(ok)
    \/ SweepRemove
    \/ SweepFlag

FairNext ==
    \/ Tick
    \/ ViewStart("r1")
    \/ \E ip \in Viewers \cup {NoIp} : ViewRead("r1", ip)
    \/ ViewMark("r1")
    \/ \E u \in Uploaders, f \in MediaNames : UploadSave(u, f)
    \/ \E u \in Uploaders : UploadCommit(u)
    \/ \E u \in Uploaders : UploadRelease(u)
    \/ \E u \in Uploaders : UploadVideoEvent(u)
    \/ \E u \in Uploaders, f \in SoundNames : UploadSoundSave(u, f)
    \/ \E u \in Uploaders : UploadSoundCommit(u)
    \/ \E u \in Uploaders : UploadSoundRelease(u)
    \/ SweepStep

FairSpec ==
    /\ Init /\ [][FairNext]_vars
    /\ SF_vars(SweepStep)
    /\ \A u \in Uploaders : WF_vars(UploadRelease(u))
    /\ \A u \in Uploaders : WF_vars(UploadSoundRelease(u))

-----------------------------------------------------------------------------
(* get_files_to_delete on every age around the threshold: the sweep's read
   step applied to a store whose media slot holds any item, flagged or
   not, stored at any second up to StaleMaxTime *)

StaleMaxTime == 12

StaleInit ==
    /\ now \in 0..StaleMaxTime
    /\ last_media \in {None} \cup
          {Some([MediaInfo(f, t, 1) EXCEPT !.marked_for_deletion = b]) :
               f \in MediaNames, t \in 0..StaleMaxTime, b \in BOOLEAN}
    /\ last_sound \in {None} \cup {Some(SoundInfo(f, 0)) : f \in SoundNames}
    /\ viewed_by \in {<< >>} \cup {f :> {v} : f \in MediaNames, v \in Viewers}
    /\ uploads = MediaNames
    /\ sounds = SoundNames
    /\ writer = NoTask
    /\ vpc = [r \in Requests |-> "idle"]
    /\ vip = [r \in Requests |-> NoIp]
    /\ vgot = [r \in Requests |-> None]
    /\ mark_ret = None
    /\ upc = [u \in Uploaders |-> "idle"]
    /\ ufile = [u \in Uploaders |-> ""]
    /\ utime = [u \in Uploaders |-> 0]
    /\ uid = [u \in Uploaders |-> 0]
    /\ spc = "sleep"
    /\ sfiles = << >>
    /\ nextId = 2
    /\ started = 1
    /\ completed = 1
    /\ served = {}
    /\ superseded = {}
    /\ hub_log = << >>
    /\ in_alive = [c \in Conns |-> FALSE]
    /\ out_alive = [c \in Conns |-> FALSE]
    /\ rx_next = [c \in Conns |-> 0]
    /\ sub_at = [c \in Conns |-> 0]
    /\ closed_at = [c \in Conns |-> 0]
    /\ delivered = [c \in Conns |-> << >>]
    /\ arg_base = << >>
    /\ arg_path = << >>
    /\ ret_name = None
    /\ ret_path = None
    /\ pathpc = "none"

StaleNext == SweepList \/ SweepSleep

StaleSpec == StaleInit /\ [][StaleNext]_vars


-----------------------------------------------------------------------------
(* websocket.rs: handle_websocket. The store variables the connection
   handler never touches are left alone. *)

storeVars == << now, last_media, last_sound, viewed_by, uploads, sounds,
                writer, vpc, vip, vgot, mark_ret, upc, ufile, utime, uid, spc,
                sfiles, nextId, started, completed, served, superseded,
                pathVars >>

\* a client connects: sender.subscribe() under clients.read(), then the
\* incoming and the outgoing task are spawned
WsConnect(c) ==
    /\ ~in_alive[c]
    /\ ~out_alive[c]
    /\ rx_next' = [rx_next EXCEPT ![c] = subscribe(hub_log)]
    /\ sub_at' = [sub_at EXCEPT ![c] = Len(hub_log)]
    /\ closed_at' = [closed_at EXCEPT ![c] = 0]
    /\ delivered' = [delivered EXCEPT ![c] = << >>]
    /\ in_alive' = [in_alive EXCEPT ![c] = TRUE]
    /\ out_alive' = [out_alive EXCEPT ![c] = TRUE]
    /\ UNCHANGED << storeVars, hub_log >>

\* an outgoing task that takes a message and does not send it
WsRelayDrop(c, ok) ==
    /\ out_alive[c]
    /\ rx_next[c] < Len(hub_log)
    /\ ok => in_alive[c]
    /\ rx_next' = [rx_next EXCEPT ![c] = @ + 1]
    /\ UNCHANGED << storeVars, hub_log, in_alive, out_alive, sub_at,
                    closed_at, delivered >>

\* outgoing task: rx.recv() returns; Err(Lagged) ends the loop, a message
\* is sent on the socket and a failed send ends the loop. ok is the result
\* of ws_sender.send, which cannot succeed once the peer is gone
WsRelay(c, ok) ==
    /\ out_alive[c]
    /\ rx_next[c] < Len(hub_log)
    /\ ok => in_alive[c]
    /\ IF lagged(hub_log, rx_next[c])
       THEN /\ out_alive' = [out_alive EXCEPT ![c] = FALSE]
            /\ UNCHANGED << rx_next, delivered >>
       ELSE /\ rx_next' = [rx_next EXCEPT ![c] = @ + 1]
            /\ IF ok
               THEN /\ delivered' = [delivered EXCEPT
                                        ![c] = Append(@, rx_next[c] + 1)]
                    /\ UNCHANGED out_alive
               ELSE /\ out_alive' = [out_alive EXCEPT ![c] = FALSE]
                    /\ UNCHANGED delivered
    /\ UNCHANGED << storeVars, hub_log, in_alive, sub_at, closed_at >>

\* a close that ends the incoming task of every connection
WsCloseAll(c) ==
    /\ in_alive[c]
    /\ in_alive' = [d \in Conns |-> FALSE]
    /\ closed_at' = [d \in Conns |-> Len(hub_log)]
    /\ UNCHANGED << storeVars, hub_log, out_alive, rx_next, sub_at,
                    delivered >>

\* select! that aborts the outgoing task when the incoming task ends
WsCloseAbort(c) ==
    /\ in_alive[c]
    /\ in_alive' = [in_alive EXCEPT ![c] = FALSE]
    /\ out_alive' = [out_alive EXCEPT ![c] = FALSE]
    /\ closed_at' = [closed_at EXCEPT ![c] = Len(hub_log)]
    /\ UNCHANGED << storeVars, hub_log, rx_next, sub_at, delivered >>

\* incoming task: a close frame, a receive error or the end of the stream
\* ends the loop; select! returns and the handler finishes, the outgoing
\* task is not aborted
WsClose(c) ==
    /\ in_alive[c]
    /\ in_alive' = [in_alive EXCEPT ![c] = FALSE]
    /\ closed_at' = [closed_at EXCEPT ![c] = Len(hub_log)]
    /\ UNCHANGED << storeVars, hub_log, out_alive, rx_next, sub_at,
                    delivered >>

\* the upload handlers and the connections to /ws; the second connection
\* is opened while the first one is in use
HubNext ==
    \/ \E u \in Uploaders, f \in MediaNames : UploadSave(u, f)
    \/ \E u \in Uploaders : UploadCommit(u)
    \/ \E u \in Uploaders : UploadRelease(u)
    \/ \E u \in Uploaders : UploadVideoEvent(u)
    \/ \E u \in Uploaders, f \in SoundNames : UploadSoundSave(u, f)
    \/ \E u \in Uploaders : UploadSoundCommit(u)
    \/ \E u \in Uploaders : UploadSoundRelease(u)
    \/ \E c \in Conns :
          /\ c = "c2" => (in_alive["c1"] \/ out_alive["c1"])
          /\ WsConnect(c)
    \/ \E c \in Conns, ok \in BOOLEAN : WsRelay(c, ok)
    \/ \E c \in Conns : WsClose(c)

HubSpec == Init /\ [][HubNext]_vars

\* the connections with an outgoing task that is run whenever a message is
\* waiting for it and the socket takes the message
RelaySpec ==
    /\ Init /\ [][HubNext]_vars
    /\ \A c \in Conns : WF_vars(WsRelay(c, TRUE))


-----------------------------------------------------------------------------
(* The uploads and the sweep that follow a first upload: the program as it
   stands right after a.jpg was stored at second 0, with no address having
   asked for it. started counts the uploads after that one. *)

GapInit ==
    /\ now = 0
    /\ last_media = Some(MediaInfo("a.jpg", 0, 1))
    /\ last_sound = None
    /\ viewed_by = << >>
    /\ uploads = {"a.jpg"}
    /\ sounds = {}
    /\ writer = NoTask
    /\ vpc = [r \in Requests |-> "idle"]
    /\ vip = [r \in Requests |-> NoIp]
    /\ vgot = [r \in Requests |-> None]
    /\ mark_ret = None
    /\ upc = [u \in Uploaders |-> "idle"]
    /\ ufile = [u \in Uploaders |-> ""]
    /\ utime = [u \in Uploaders |-> 0]
    /\ uid = [u \in Uploaders |-> 0]
    /\ spc = "sleep"
    /\ sfiles = << >>
    /\ nextId = 2
    /\ started = 0
    /\ completed = 1
    /\ served = {}
    /\ superseded = {}
    /\ hub_log = << >>
    /\ in_alive = [c \in Conns |-> FALSE]
    /\ out_alive = [c \in Conns |-> FALSE]
    /\ rx_next = [c \in Conns |-> 0]
    /\ sub_at = [c \in Conns |-> 0]
    /\ closed_at = [c \in Conns |-> 0]
    /\ delivered = [c \in Conns |-> << >>]
    /\ arg_base = << >>
    /\ arg_path = << >>
    /\ ret_name = None
    /\ ret_path = None
    /\ pathpc = "none"

GapNext ==
    \/ Tick
    \/ \E u \in Uploaders, f \in MediaNames : UploadSave(u, f)
    \/ \E u \in Uploaders : UploadCommit(u)
    \/ \E u \in Uploaders : UploadRelease(u)
    \/ \E u \in Uploaders : UploadVideoEvent(u)
    \/ SweepList
    \/ SweepSleep
    \/ \E ok \in BOOLEAN : SweepDelete(ok)
    \/ SweepRemove
    \/ SweepFlag

GapSpec == GapInit /\ [][GapNext]_vars


-----------------------------------------------------------------------------
(* A slow viewer: the program as it stands after ring_size image uploads
   were announced to a connection that is still open; the connection has
   been sent none of them, or all but the last ChannelCapacity. started
   counts the uploads after those. *)

OverflowInit ==
    /\ now = 0
    /\ last_media = Some(MediaInfo("a.jpg", 0, ring_size))
    /\ last_sound = None
    /\ viewed_by = << >>
    /\ uploads = {"a.jpg"}
    /\ sounds = {}
    /\ writer = NoTask
    /\ vpc = [r \in Requests |-> "idle"]
    /\ vip = [r \in Requests |-> NoIp]
    /\ vgot = [r \in Requests |-> None]
    /\ mark_ret = None
    /\ upc = [u \in Uploaders |-> "idle"]
    /\ ufile = [u \in Uploaders |-> ""]
    /\ utime = [u \in Uploaders |-> 0]
    /\ uid = [u \in Uploaders |-> 0]
    /\ spc = "sleep"
    /\ sfiles = << >>
    /\ nextId = ring_size + 1
    /\ started = 0
    /\ completed = ring_size
    /\ served = {}
    /\ superseded = {}
    /\ hub_log = [i \in 1..ring_size |-> MediaEvent]
    /\ in_alive = [c \in Conns |-> c = "c1"]
    /\ out_alive = [c \in Conns |-> c = "c1"]
    /\ sub_at = [c \in Conns |-> 0]
    /\ closed_at = [c \in Conns |-> 0]
    /\ \E k \in {0, ring_size - ChannelCapacity} :
          /\ rx_next = [c \in Conns |-> IF c = "c1" THEN k ELSE 0]
          /\ delivered = [c \in Conns |->
                             IF c = "c1" THEN [i \in 1..k |-> i] ELSE << >>]
    /\ arg_base = << >>
    /\ arg_path = << >>
    /\ ret_name = None
    /\ ret_path = None
    /\ pathpc = "none"

\* the upload handlers and the one slow connection
OverflowNext ==
    \/ \E u \in Uploaders, f \in MediaNames : UploadSave(u, f)
    \/ \E u \in Uploaders : UploadCommit(u)
    \/ \E u \in Uploaders : UploadRelease(u)
    \/ \E u \in Uploaders : UploadVideoEvent(u)
    \/ \E u \in Uploaders, f \in SoundNames : UploadSoundSave(u, f)
    \/ \E u \in Uploaders : UploadSoundCommit(u)
    \/ \E u \in Uploaders : UploadSoundRelease(u)
    \/ WsConnect("c1")
    \/ \E ok \in BOOLEAN : WsRelay("c1", ok)
    \/ WsClose("c1")

OverflowSpec == OverflowInit /\ [][OverflowNext]_vars


-----------------------------------------------------------------------------
(* Two uploads in flight: warp runs one upload_image handler per request,
   here two of them, while a viewer is connected to /ws and its outgoing
   task relays what is published. *)

Racers == {"u1", "u2"}

OrderInit ==
    /\ now = 0
    /\ last_media = None
    /\ last_sound = None
    /\ viewed_by = << >>
    /\ uploads = {}
    /\ sounds = {}
    /\ writer = NoTask
    /\ vpc = [r \in Requests |-> "idle"]
    /\ vip = [r \in Requests |-> NoIp]
    /\ vgot = [r \in Requests |-> None]
    /\ mark_ret = None
    /\ upc = [u \in Racers |-> "idle"]
    /\ ufile = [u \in Racers |-> ""]
    /\ utime = [u \in Racers |-> 0]
    /\ uid = [u \in Racers |-> 0]
    /\ spc = "sleep"
    /\ sfiles = << >>
    /\ nextId = 1
    /\ started = 0
    /\ completed = 0
    /\ served = {}
    /\ superseded = {}
    /\ hub_log = << >>
    /\ in_alive = [c \in Conns |-> c = "c1"]
    /\ out_alive = [c \in Conns |-> c = "c1"]
    /\ rx_next = [c \in Conns |-> 0]
    /\ sub_at = [c \in Conns |-> 0]
    /\ closed_at = [c \in Conns |-> 0]
    /\ delivered = [c \in Conns |-> << >>]
    /\ arg_base = << >>
    /\ arg_path = << >>
    /\ ret_name = None
    /\ ret_path = None
    /\ pathpc = "none"

OrderNext ==
    \/ \E u \in Racers, f \in MediaNames : UploadSave(u, f)
    \/ \E u \in Racers : UploadCommit(u)
    \/ \E u \in Racers : UploadRelease(u)
    \/ \E u \in Racers : UploadVideoEvent(u)
    \/ WsRelay("c1", TRUE)

OrderSpec == OrderInit /\ [][OrderNext]_vars


-----------------------------------------------------------------------------
(* The tasks that take the store lock or the hub lock, under the scheduling
   of the tokio runtime: a task that can run is polled, and tokio's RwLock
   queues its waiters in order of arrival, so a waiter is passed over only
   finitely often. The hub lock is only ever taken shared (clients.read()):
   there is no clients.write() in the program, a shared request never
   waits, and it is taken and dropped inside one step. *)

\* a store-lock step of an upload handler: state.write() is granted, or the
\* handler publishes under the lock and drops the guard
UploadLockStep(u) ==
    \/ UploadCommit(u)
    \/ UploadRelease(u)
    \/ UploadSoundCommit(u)
    \/ UploadSoundRelease(u)

\* a store-lock step of the last_media handler
ViewLockStep ==
    \/ ViewRead("r1", "10.0.0.1")
    \/ ViewMark("r1")

\* image and sound uploads (the two that publish while they hold the store
\* lock), one view request, the cleanup task and a client that connects
LockNext ==
    \/ Tick
    \/ ViewStart("r1")
    \/ ViewLockStep
    \/ \E u \in Uploaders : UploadSave(u, "a.jpg")
    \/ \E u \in Uploaders, f \in SoundNames : UploadSoundSave(u, f)
    \/ \E u \in Uploaders : UploadLockStep(u)
    \/ SweepStep
    \/ WsConnect("c1")

\* each task is scheduled fairly: it takes its next step if that step is
\* possible again and again
LockSpec ==
    /\ Init /\ [][LockNext]_vars
    /\ \A u \in Uploaders : SF_vars(UploadLockStep(u))
    /\ SF_vars(ViewLockStep)
    /\ SF_vars(SweepStep)


-----------------------------------------------------------------------------
(* handlers/upload.rs: the uploads that end without success, next to those
   that succeed, with one view request and a connected client. *)

\* a failure path that empties the media slot
UploadFailReset(u) ==
    /\ upc[u] \in {"commit", "scommit"}
    /\ upc' = [upc EXCEPT ![u] = "idle"]
    /\ ufile' = [ufile EXCEPT ![u] = ""]
    /\ utime' = [utime EXCEPT ![u] = 0]
    /\ last_media' = None
    /\ UNCHANGED << now, last_sound, viewed_by, uploads, sounds, writer,
                    vpc, vip, vgot, mark_ret, uid, spc, sfiles, nextId,
                    started, completed, served >>
    /\ UNCHANGED << superseded, hubVars, pathVars >>

\* upload_image, upload_sound: the request ends before a file is created:
\* multipart error, no file field, invalid extension, sound over 50 MB,
\* invalid filename or path, content that does not match the extension,
\* create_dir_all or File::create failing
UploadReject(u) ==
    /\ upc[u] = "idle"
    /\ started < MaxUploads
    /\ started' = started + 1
    /\ UNCHANGED << now, last_media, last_sound, viewed_by, uploads, sounds,
                    writer, vpc, vip, vgot, mark_ret, upc, ufile, utime, uid,
                    spc, sfiles, nextId, completed, served >>
    /\ UNCHANGED << superseded, hubVars, pathVars >>

\* upload_image, upload_sound: the request ends after the file was created:
\* write_all failing, an image or video over 100 MB, or
\* process_video_with_caption failing; the file stays on disk
UploadFail(u) ==
    /\ upc[u] \in {"commit", "scommit"}
    /\ upc' = [upc EXCEPT ![u] = "idle"]
    /\ ufile' = [ufile EXCEPT ![u] = ""]
    /\ utime' = [utime EXCEPT ![u] = 0]
    /\ UNCHANGED << now, last_media, last_sound, viewed_by, uploads, sounds,
                    writer, vpc, vip, vgot, mark_ret, uid, spc, sfiles,
                    nextId, started, completed, served >>
    /\ UNCHANGED << superseded, hubVars, pathVars >>

RejectNext ==
    \/ ViewStart("r1")
    \/ ViewRead("r1", "10.0.0.1")
    \/ ViewMark("r1")
    \/ \E u \in Uploaders, f \in MediaNames : UploadSave(u, f)
    \/ \E u \in Uploaders : UploadCommit(u)
    \/ \E u \in Uploaders : UploadRelease(u)
    \/ \E u \in Uploaders : UploadVideoEvent(u)
    \/ \E u \in Uploaders, f \in SoundNames : UploadSoundSave(u, f)
    \/ \E u \in Uploaders : UploadSoundCommit(u)
    \/ \E u \in Uploaders : UploadSoundRelease(u)
    \/ \E u \in Uploaders : UploadReject(u)
    \/ \E u \in Uploaders : UploadFail(u)
    \/ WsConnect("c1")

RejectSpec == Init /\ [][RejectNext]_vars


-----------------------------------------------------------------------------
(* utils.rs on every path of at most MaxPathLen characters: either function
   is called on the path, and validate_file_path is called on the sanitized
   name as save_uploaded_file and upload_sound do *)

MaxPathLen == 5

Paths == UNION {[1..n -> PathChars] : n \in 0..MaxPathLen}

PathInit ==
    /\ now = 0
    /\ last_media = None
    /\ last_sound = None
    /\ viewed_by = << >>
    /\ uploads = {}
    /\ sounds = {}
    /\ writer = NoTask
    /\ vpc = [r \in Requests |-> "idle"]
    /\ vip = [r \in Requests |-> NoIp]
    /\ vgot = [r \in Requests |-> None]
    /\ mark_ret = None
    /\ upc = [u \in Uploaders |-> "idle"]
    /\ ufile = [u \in Uploaders |-> ""]
    /\ utime = [u \in Uploaders |-> 0]
    /\ uid = [u \in Uploaders |-> 0]
    /\ spc = "sleep"
    /\ sfiles = << >>
    /\ nextId = 1
    /\ started = 0
    /\ completed = 0
    /\ served = {}
    /\ superseded = {}
    /\ hub_log = << >>
    /\ in_alive = [c \in Conns |-> FALSE]
    /\ out_alive = [c \in Conns |-> FALSE]
    /\ rx_next = [c \in Conns |-> 0]
    /\ sub_at = [c \in Conns |-> 0]
    /\ closed_at = [c \in Conns |-> 0]
    /\ delivered = [c \in Conns |-> << >>]
    /\ arg_base \in Bases
    /\ arg_path \in Paths
    /\ ret_name = None
    /\ ret_path = None
    /\ pathpc = "start"

\* the variables the functions of utils.rs do not touch
nonPathVars == << now, last_media, last_sound, viewed_by, uploads, sounds,
                  writer, vpc, vip, vgot, mark_ret, upc, ufile, utime, uid, spc,
                  sfiles, nextId, started, completed, served, superseded,
                  hubVars >>

\* sanitize_filename(filename)
CallSanitize ==
    /\ pathpc = "start"
    /\ ret_name' = sanitize_filename(arg_path)
    /\ pathpc' = "sanitized"
    /\ UNCHANGED << nonPathVars, arg_base, arg_path, ret_path >>

\* validate_file_path(base_dir, user_path)
CallValidate ==
    /\ pathpc = "start"
    /\ ret_path' = validate_file_path(arg_base, arg_path)
    /\ pathpc' = "validated"
    /\ UNCHANGED << nonPathVars, arg_base, arg_path, ret_name >>

\* validate_file_path(base_dir, &sanitized_filename)
CallValidateSanitized ==
    /\ pathpc = "sanitized"
    /\ IsSome(ret_name)
    /\ ret_path' = validate_file_path(arg_base, Unwrap(ret_name))
    /\ pathpc' = "saved"
    /\ UNCHANGED << nonPathVars, arg_base, arg_path, ret_name >>

PathNext == CallSanitize \/ CallValidate \/ CallValidateSanitized

PathSpec == PathInit /\ [][PathNext]_vars

----------------------------------------------------------------------------
(* Properties *)

\* the ledger set of a filename
Ledger(vb, filename) == IF filename \in DOMAIN vb THEN vb[filename] ELSE {}

\* the occupant's age is over the threshold
Stale(lm, t) == IsSome(lm) /\ t - Unwrap(lm).upload_time > DeletionThreshold

\* the occupant carries the quarantine flag
Flagged(lm) == IsSome(lm) /\ Unwrap(lm).marked_for_deletion

\* C1: at-most-once viewing. A response that renders the current occupant
\* of the media slot to address v is the first response that renders this
\* upload to v.
AtMostOnceViewing ==
    [][\A r \in Requests :
         ViewMark(r) =>
           (Some(Unwrap(vgot[r]).id) = SlotId(last_media)
              => vip[r] \notin served)]_vars

\* C2: mark_viewed re-validates identity. A mark_viewed call whose filename
\* is not the filename of the current occupant of the media slot (the slot
\* is empty or holds another filename) leaves the ledger unchanged.
MarkViewedRevalidates ==
    [][\A r \in Requests :
         ViewMark(r) =>
           \/ /\ IsSome(last_media)
              /\ Unwrap(last_media).filename = Unwrap(vgot[r]).filename
           \/ viewed_by' = viewed_by]_vars

\* C3: once get_last_media_for_ip(v) returned the occupant m and
\* mark_viewed(m.filename, v) was called, get_last_media_for_ip(v) returns
\* nothing for as long as m occupies the slot.
ViewedNotOfferedAgain ==
    \A v \in served :
        get_last_media_for_ip(last_media, viewed_by, v) = None

C3Witness ==
    /\ IsSome(last_media)
    /\ ~Unwrap(last_media).marked_for_deletion
    /\ served /= {}
    /\ \E v \in Viewers : v \notin served

ReadsSeeCompletedWrites ==
    [][/\ \A r \in Requests, ip \in Viewers \cup {NoIp} :
            ViewRead(r, ip) =>
              /\ vgot'[r] \in {None, last_media}
              /\ IsSome(vgot'[r]) => Unwrap(vgot'[r]).id >= completed
       /\ IsSome(last_media') => Unwrap(last_media').id >= completed'
       /\ \A u \in Uploaders :
            /\ upc'[u] = "locked"
                 => last_media' = Some(MediaInfo(ufile'[u], utime'[u], nextId' - 1))
            /\ upc'[u] = "slocked"
                 => last_sound' = Some(SoundInfo(ufile'[u], utime'[u]))]_vars

C5Witness ==
    /\ completed = 2
    /\ \E r \in Requests :
          /\ vpc[r] = "mark"
          /\ Unwrap(vgot[r]).id = 2

\* C6: get_last_media_for_ip(v) returns the occupant exactly when the slot
\* is occupied, the occupant is not flagged and v is not in the ledger set
\* of its filename, and nothing otherwise; a flagged item is never
\* returned; the call changes neither the slots nor the ledger.
GetCurrentForViewerExact ==
    [][\A r \in Requests, ip \in Viewers \cup {NoIp} :
         ViewRead(r, ip) =>
           /\ vgot'[r] =
                IF /\ ip \in Viewers
                   /\ IsSome(last_media)
                   /\ ~Flagged(last_media)
                   /\ ip \notin Ledger(viewed_by, Unwrap(last_media).filename)
                THEN last_media
                ELSE None
           /\ IsSome(vgot'[r]) => ~Unwrap(vgot'[r]).marked_for_deletion
           /\ vpc'[r] = IF IsSome(vgot'[r]) THEN "mark" ELSE "idle"
           /\ last_media' = last_media
           /\ last_sound' = last_sound
           /\ viewed_by' = viewed_by]_vars

C6Witness ==
    \E r \in Requests :
        /\ vpc[r] = "mark"
        /\ vgot[r] = last_media
        /\ \E w \in Viewers :
              w \in Ledger(viewed_by, Unwrap(last_media).filename)

\* C7: mark_viewed is idempotent per (filename, address): the call for a
\* pair that is not in the ledger returns true and adds the address to the
\* set of the filename; a call for a pair that is in the ledger returns
\* false and leaves the ledger unchanged.
MarkViewedIdempotent ==
    [][\A r \in Requests :
         ViewMark(r) =>
           LET f == Unwrap(vgot[r]).filename
               v == vip[r]
           IN  /\ v \notin Ledger(viewed_by, f)
                    => /\ mark_ret' = Some(TRUE)
                       /\ Ledger(viewed_by', f) = Ledger(viewed_by, f) \cup {v}
               /\ v \in Ledger(viewed_by, f)
                    => /\ mark_ret' = Some(FALSE)
                       /\ viewed_by' = viewed_by
               /\ \A g \in MediaNames \ {f} :
                     Ledger(viewed_by', g) = Ledger(viewed_by, g)]_vars

C7Witness ==
    /\ mark_ret = Some(FALSE)
    /\ \E f \in DOMAIN viewed_by : viewed_by[f] /= {}

\* C8: consumption is per address. mark_viewed(f, v) changes the result of
\* get_last_media_for_ip for v alone: every other address w gets what it
\* got before, and when w has not viewed f, mark_viewed(f, w) still returns
\* true and w still gets the occupant named f.
ConsumptionPerViewer ==
    [][\A r \in Requests :
         ViewMark(r) =>
           LET f == Unwrap(vgot[r]).filename
           IN  \A w \in Viewers \ {vip[r]} :
                  /\ get_last_media_for_ip(last_media', viewed_by', w)
                       = get_last_media_for_ip(last_media, viewed_by, w)
                  /\ w \notin Ledger(viewed_by, f)
                       => /\ mark_viewed_ret(viewed_by', f, w)
                          /\ w \notin Ledger(viewed_by', f)
                          /\ (/\ IsSome(last_media')
                              /\ Unwrap(last_media').filename = f
                              /\ ~Flagged(last_media'))
                               => get_last_media_for_ip(last_media', viewed_by', w)
                                    = last_media']_vars

C8Witness ==
    /\ IsSome(last_media)
    /\ ~Flagged(last_media)
    /\ \E v \in served, w \in Viewers :
          /\ w /= v
          /\ v \in Ledger(viewed_by, Unwrap(last_media).filename)
          /\ w \notin Ledger(viewed_by, Unwrap(last_media).filename)
          /\ get_last_media_for_ip(last_media, viewed_by, w) = last_media
          /\ get_last_media_for_ip(last_media, viewed_by, v) = None

\* C9: eviction failure path. When the delete of the occupant's file fails,
\* mark_for_deletion flags the occupant and leaves it in the slot; a flagged
\* occupant is returned to no address, and the flag stays for as long as
\* this upload occupies the slot.
QuarantineUnservable ==
    [][/\ (SweepFlag /\ IsSome(last_media)
             /\ Unwrap(last_media).filename = Head(sfiles))
            => /\ last_media'
                    = Some([Unwrap(last_media) EXCEPT !.marked_for_deletion = TRUE])
               /\ viewed_by' = viewed_by
       /\ (Flagged(last_media) /\ SlotId(last_media') = SlotId(last_media))
            => Flagged(last_media')
       /\ Flagged(last_media)
            => \A v \in Viewers :
                  get_last_media_for_ip(last_media, viewed_by, v) = None
       /\ Flagged(last_media')
            => \A v \in Viewers :
                  get_last_media_for_ip(last_media', viewed_by', v) = None]_vars

C9Witness ==
    /\ Flagged(last_media)
    /\ spc = "sleep"
    /\ Unwrap(last_media).filename \in uploads
    /\ \E v \in Viewers :
          v \notin Ledger(viewed_by, Unwrap(last_media).filename)

\* C10: quarantine retry. Every sweep tick that finds a flagged occupant
\* whose age is over the threshold lists it again, so that its file delete
\* is attempted again.
QuarantineRetried ==
    [][(SweepList /\ Flagged(last_media) /\ Stale(last_media, now))
          => sfiles' = << Unwrap(last_media).filename >>]_vars

\* the file names in a files_to_delete list
Listed(files) == {files[i] : i \in 1..Len(files)}

\* the occupant of the media slot is named filename
Occupies(lm, filename) == IsSome(lm) /\ Unwrap(lm).filename = filename

\* C12: eviction success path. When the file of the listed item is deleted
\* and an item of that name occupies the slot, remove_file_from_state
\* leaves the media slot empty and the ledger without an entry for the
\* filename; an empty slot yields nothing for every address, and only a
\* slot write of an upload fills it again.
EvictionSuccess ==
    [][/\ (SweepRemove /\ Occupies(last_media, Head(sfiles)))
            => /\ last_media' = None
               /\ Head(sfiles) \notin DOMAIN viewed_by'
               /\ \A v \in Viewers :
                     get_last_media_for_ip(last_media', viewed_by', v) = None
       /\ (last_media = None /\ last_media' /= None)
            => \E u \in Uploaders : UploadCommit(u)
       /\ last_media' = None
            => \A v \in Viewers :
                  get_last_media_for_ip(last_media', viewed_by', v) = None]_vars

C12Witness ==
    /\ last_media = None
    /\ nextId = 2
    /\ mark_ret = Some(TRUE)
    /\ viewed_by = << >>
    /\ uploads = {}
    /\ spc = "loop"

\* C13: remove_file_from_state with a filename that is not the name of the
\* media slot occupant changes nothing: media slot, sound slot and every
\* ledger entry stay as they are.
RemoveIfMatchesNoOp ==
    [][(SweepRemove /\ ~Occupies(last_media, Head(sfiles)))
          => /\ last_media' = last_media
             /\ last_sound' = last_sound
             /\ viewed_by' = viewed_by]_vars

\* C14: mark_for_deletion sets the flag exactly when the filename is the
\* name of the media slot occupant and changes nothing else; with an empty
\* slot or another occupant the media slot, the sound slot and the ledger
\* are unchanged.
MarkPendingDeletionGuarded ==
    [][SweepFlag =>
         /\ Occupies(last_media, Head(sfiles))
              => last_media'
                   = Some([Unwrap(last_media) EXCEPT !.marked_for_deletion = TRUE])
         /\ ~Occupies(last_media, Head(sfiles)) => last_media' = last_media
         /\ last_sound' = last_sound
         /\ viewed_by' = viewed_by]_vars

C14Witness ==
    /\ spc = "flag"
    /\ writer = NoTask
    /\ IsSome(last_media)
    /\ ~Unwrap(last_media).marked_for_deletion
    /\ Unwrap(last_media).filename /= Head(sfiles)
    /\ Head(sfiles) \in DOMAIN viewed_by

\* C16: the sound slot has the eviction lifecycle of the media slot: a
\* sweep tick that finds an unflagged sound whose age is over the threshold
\* lists it for deletion.
SoundEvicted ==
    [][(SweepList /\ IsSome(last_sound)
          /\ now - Unwrap(last_sound).upload_time > DeletionThreshold
          /\ ~Unwrap(last_sound).marked_for_deletion)
          => Unwrap(last_sound).filename \in Listed(sfiles')]_vars

\* C17: the two slots are independent. A media slot write and the eviction
\* (removal or quarantine) of a media filename leave the sound slot
\* unchanged; a sound slot write leaves the media slot and the ledger
\* unchanged.
SlotsIndependent ==
    [][/\ ((\E u \in Uploaders : UploadCommit(u)) \/ SweepRemove \/ SweepFlag)
            => last_sound' = last_sound
       /\ (\E u \in Uploaders : UploadSoundCommit(u))
            => /\ last_media' = last_media
               /\ viewed_by' = viewed_by]_vars

\* C18: set_last_media replaces the media slot and nothing else: every
\* ledger entry, the sound slot and the files on disk are unchanged.
SetMediaOnlySlot ==
    [][\A u \in Uploaders :
         UploadCommit(u) =>
           /\ last_media' = Some(MediaInfo(ufile[u], utime[u], nextId))
           /\ viewed_by' = viewed_by
           /\ last_sound' = last_sound
           /\ uploads' = uploads
           /\ sounds' = sounds]_vars

C18Witness ==
    \E u \in Uploaders :
        /\ upc[u] = "locked"
        /\ Occupies(last_media, ufile[u])
        /\ \E f \in MediaNames \ {ufile[u]} :
              f \in DOMAIN viewed_by /\ f \in uploads

\* C15: get_files_to_delete returns the filename of the media slot occupant
\* exactly when the occupant's age is strictly greater than the threshold
\* and the occupant is not flagged, and nothing otherwise: with the 10 s
\* threshold an unflagged item of age 11 is listed, one of age 9 or of age
\* exactly 10 is not. The call changes nothing in the store.
ListStaleCandidatesStrict ==
    [][SweepList =>
         /\ sfiles' = IF /\ IsSome(last_media)
                         /\ now - Unwrap(last_media).upload_time
                              > DeletionThreshold
                         /\ ~Unwrap(last_media).marked_for_deletion
                      THEN << Unwrap(last_media).filename >>
                      ELSE << >>
         /\ (IsSome(last_media) /\ ~Unwrap(last_media).marked_for_deletion
               /\ now - Unwrap(last_media).upload_time = 11)
              => sfiles' = << Unwrap(last_media).filename >>
         /\ (IsSome(last_media)
               /\ now - Unwrap(last_media).upload_time \in {9, 10})
              => sfiles' = << >>
         /\ UNCHANGED << last_media, last_sound, viewed_by, uploads,
                         sounds >>]_vars

C15Witness ==
    /\ spc = "loop"
    /\ sfiles = << >>
    /\ IsSome(last_media)
    /\ ~Unwrap(last_media).marked_for_deletion
    /\ now - Unwrap(last_media).upload_time = DeletionThreshold

\* C11: purge liveness. Under fair scheduling of the sweep, an upload whose
\* age is over the threshold does not stay in the media slot for ever
\* unless a delete of its file failed: it is removed from the store (or
\* replaced by a later upload), or it carries the flag of a failed delete.
\* The slot is emptied only by the sweep's Ok arm for that filename, which
\* runs only after remove_file took the file off the disk.
PurgeLiveness ==
    /\ \A i \in 1..MaxUploads :
          (SlotId(last_media) = Some(i) /\ Stale(last_media, now))
             ~> (SlotId(last_media) /= Some(i) \/ Flagged(last_media))
    /\ [][/\ (IsSome(last_media) /\ last_media' = None)
               => SweepRemove /\ Occupies(last_media, Head(sfiles))
          /\ SweepDelete(TRUE)
               => spc' = "remove" /\ Head(sfiles) \notin uploads'
          /\ SweepRemove => spc = "remove"]_vars

C11Witness ==
    /\ last_media = None
    /\ started = 1
    /\ completed = 1
    /\ "a.jpg" \notin uploads
    /\ now > DeletionThreshold
    /\ spc = "sleep"

\* the step appends a message to the broadcast channel
Published == Len(hub_log') = Len(hub_log) + 1

\* C20: hub fan-out without replay. A published message is enqueued for
\* every receiver that exists at the time of the send: it lies ahead of the
\* cursor of each of them. What a connection was sent on its socket is, in
\* order, the messages published after it subscribed, none skipped and
\* none from before the subscription; a running outgoing task has sent
\* everything up to its cursor.
HubFanOutNoReplay ==
    [][/\ Published =>
            \A c \in Conns :
               out_alive[c] => /\ rx_next'[c] = rx_next[c]
                               /\ rx_next[c] < Len(hub_log')
                               /\ ~lagged(hub_log', rx_next[c])
       /\ hub_log' /= hub_log =>
            /\ Published
            /\ \A i \in 1..Len(hub_log) : hub_log'[i] = hub_log[i]
       /\ \A c \in Conns :
            /\ \A k \in 1..Len(delivered'[c]) :
                  delivered'[c][k] = sub_at'[c] + k
            /\ sub_at'[c] + Len(delivered'[c]) <= rx_next'[c]
            /\ rx_next'[c] <= Len(hub_log')
            /\ out_alive'[c]
                 => rx_next'[c] = sub_at'[c] + Len(delivered'[c])]_vars

C20Witness ==
    /\ Len(hub_log) = 1
    /\ out_alive["c1"] /\ out_alive["c2"]
    /\ sub_at["c1"] = 0
    /\ delivered["c1"] = << 1 >>
    /\ sub_at["c2"] = 1
    /\ rx_next["c2"] = 1
    /\ delivered["c2"] = << >>

\* C19: supersession gap. Once an item was replaced in the media slot by an
\* item of another filename while its age was within the threshold, and
\* until its filename occupies the slot again, get_files_to_delete does not
\* list its filename and the sweep does not delete its file.
SupersessionGap ==
    [][/\ SweepList => Listed(sfiles') \cap superseded = {}
       /\ SweepDelete(TRUE) => Head(sfiles) \notin superseded]_vars

\* C29: no cross-generation mutation by the sweep. When an upload named
\* like the listed file occupies the slot with an age within the threshold
\* (it replaced the listed one after the listing), the sweep does not
\* delete its file, does not remove it from the slot and does not flag it.
NoCrossGeneration ==
    [][(/\ sfiles /= << >>
        /\ Occupies(last_media, Head(sfiles))
        /\ ~Stale(last_media, now))
          => /\ SweepDelete(TRUE) => Head(sfiles) \in uploads'
             /\ (SweepRemove \/ SweepFlag) => last_media' = last_media]_vars

\* C30: no file I/O inside the store's critical sections. The files on disk
\* change only in the save step of an upload handler that does not hold the
\* store lock and in the sweep's remove_file step; that step lies between
\* the sweep's read section and its write section, changes nothing in the
\* store and never waits for the store lock, whoever holds it.
NoFileIoUnderLock ==
    [][/\ (uploads' /= uploads \/ sounds' /= sounds)
            => \/ \E u \in Uploaders :
                    /\ writer /= u /\ writer' = writer
                    /\ \/ \E f \in MediaNames : UploadSave(u, f)
                       \/ \E f \in SoundNames : UploadSoundSave(u, f)
               \/ SweepDelete(TRUE)
       /\ (\E ok \in BOOLEAN : SweepDelete(ok))
            => /\ spc = "loop" /\ spc' \in {"remove", "flag"}
               /\ UNCHANGED << last_media, last_sound, viewed_by, writer >>
       /\ (spc = "loop" /\ sfiles /= << >>) => ENABLED SweepDelete(FALSE)
       /\ (SweepList \/ SweepRemove \/ SweepFlag)
            => /\ writer = NoTask
               /\ UNCHANGED << uploads, sounds >>]_vars

C30Witness ==
    /\ spc = "remove"
    /\ writer \in Uploaders
    /\ Head(sfiles) \notin uploads

\* the message the step appended to the broadcast channel
LastPublished == hub_log'[Len(hub_log')]

\* C23: every video upload publishes two events to the current
\* subscribers: the general update event when the slot is written and the
\* "video" event after it.
VideoUploadTwoEvents ==
    [][\A u \in Uploaders :
         /\ (/\ UploadRelease(u)
             /\ detect_media_type(ufile[u]) = "Video"
             /\ receiver_count(out_alive) > 0)
              => Published /\ LastPublished.event /= "video"
         /\ (UploadVideoEvent(u) /\ receiver_count(out_alive) > 0)
              => Published /\ LastPublished.event = "video"]_vars

\* C24: store before publish. Each message is appended to the channel by
\* the upload handler whose slot write has already taken effect: the media
\* slot holds the upload an update event announces, the slot write of the
\* upload a video event announces is complete and no earlier upload is in
\* the slot, the sound slot holds the sound a song event announces, and the
\* publishing step itself does not write the slot.
StoreBeforePublish ==
    [][Published =>
         \E u \in Uploaders :
            /\ last_media' = last_media
            /\ last_sound' = last_sound
            /\ \/ /\ UploadRelease(u)
                  /\ LastPublished = MediaEvent
                  /\ last_media
                       = Some(MediaInfo(ufile[u], utime[u], nextId - 1))
               \/ /\ UploadVideoEvent(u)
                  /\ LastPublished = VideoEvent(ufile[u])
                  /\ completed = nextId - 1
                  /\ SlotId(last_media) \in {None, Some(nextId - 1)}
               \/ /\ UploadSoundRelease(u)
                  /\ LastPublished = SongEvent(ufile[u])
                  /\ last_sound = Some(SoundInfo(ufile[u], utime[u]))]_vars

C24Witness ==
    /\ Len(hub_log) = 2
    /\ hub_log[2].event = "video"
    /\ delivered["c1"] = << 1, 2 >>
    /\ Occupies(last_media, "x.ogg")
    /\ SlotId(last_media) = Some(2)

\* the connection c loses a task in this step
ConnectionEnds(c) ==
    \/ in_alive[c] /\ ~in_alive'[c]
    \/ out_alive[c] /\ ~out_alive'[c]

\* C25: viewer isolation. A step that ends a task of one connection (close
\* frame, receive error, failed send) changes nothing in the store, nothing
\* in the channel and nothing of any other connection; a send still
\* reaches every other live receiver.
ViewerIsolation ==
    [][\A c \in Conns :
         ConnectionEnds(c) =>
            /\ UNCHANGED << storeVars, hub_log, sub_at >>
            /\ \A d \in Conns \ {c} :
                  /\ in_alive'[d] = in_alive[d]
                  /\ out_alive'[d] = out_alive[d]
                  /\ rx_next'[d] = rx_next[d]
                  /\ delivered'[d] = delivered[d]
                  /\ out_alive'[d]
                       => send(hub_log', receiver_count(out_alive'),
                               MediaEvent) = Append(hub_log', MediaEvent)]_vars

C25Witness ==
    /\ ~in_alive["c1"] /\ ~out_alive["c1"]
    /\ rx_next["c1"] = 1
    /\ delivered["c1"] = << >>
    /\ in_alive["c2"] /\ out_alive["c2"]
    /\ Len(hub_log) = 2
    /\ delivered["c2"] = << 1, 2 >>

\* the event field is one of names and the url is a non-empty sequence of
\* string parts, for every message in the channel
EventsWithin(names) ==
    \A i \in 1..Len(hub_log) :
       /\ DOMAIN hub_log[i] = {"event", "url"}
       /\ hub_log[i].event \in names
       /\ hub_log[i].url /= << >>

\* C26 as stated: every published event carries a discriminator from
\* "media", "video", "song", "raw_url" and a url.
EventDiscriminatorStated ==
    EventsWithin({"media", "video", "song", "raw_url"})

\* C26: every published event carries a discriminator from
\* "browser_backend", "video", "song", "browser_raw" and a url.
EventDiscriminator ==
    EventsWithin({"browser_backend", "video", "song", "browser_raw"})

C26Witness ==
    /\ Len(hub_log) = 2
    /\ hub_log[1].event = "browser_backend"
    /\ hub_log[2].event = "song"

\* the number of messages sent and not yet received by connection c
Backlog(c) == Len(hub_log) - rx_next[c]

\* C21: hub overflow is drop-oldest with a gap, not a disconnect. When the
\* outgoing task of a connection whose peer is there takes its next message
\* with a backlog over the capacity, the task keeps running and the message
\* sent on the socket is one published after its cursor.
OverflowKeepsPump ==
    [][\A c \in Conns :
         (WsRelay(c, TRUE) /\ Backlog(c) > ChannelCapacity)
            => /\ out_alive'[c]
               /\ Len(delivered'[c]) = Len(delivered[c]) + 1
               /\ delivered'[c][Len(delivered'[c])] > rx_next[c]]_vars

\* C22: publish never blocks on subscribers. An upload handler that has
\* reached one of its broadcast_* calls can always take the step, whatever
\* the number of receivers and their backlogs, and that one step ends the
\* call: the channel gains at most the one message and no cursor moves.
PublishNeverBlocks ==
    [][\A u \in Uploaders :
         /\ (upc[u] = "locked" /\ writer = u) => ENABLED UploadRelease(u)
         /\ upc[u] = "video" => ENABLED UploadVideoEvent(u)
         /\ (upc[u] = "slocked" /\ writer = u)
              => ENABLED UploadSoundRelease(u)
         /\ (UploadRelease(u) \/ UploadVideoEvent(u) \/ UploadSoundRelease(u))
              => /\ upc'[u] /= upc[u]
                 /\ Len(hub_log') <= Len(hub_log) + 1
                 /\ rx_next' = rx_next]_vars

C22Witness ==
    /\ Len(hub_log) = ring_size + 2
    /\ out_alive["c1"]
    /\ rx_next["c1"] = 0
    /\ \A u \in Uploaders : upc[u] = "idle"

\* the part of path p after the base and its separator
Below(p, base) == SubSeq(p, Len(base) + 2, Len(p))

\* path p lies inside base: it is base, or base, a separator and a path of
\* normal components only
Inside(p, base) ==
    \/ p = base
    \/ /\ Len(p) > Len(base)
       /\ SubSeq(p, 1, Len(base) + 1) = base \o << "/" >>
       /\ \A i \in 1..Len(Split(Below(p, base))) :
             /\ Split(Below(p, base))[i] /= << ".", "." >>
             /\ Split(Below(p, base))[i] /= << "." >>
             /\ Split(Below(p, base))[i] = << >>
                   => Len(Split(Below(p, base))) = 1

\* C27: path containment. For every base directory and user path,
\* validate_file_path returns None or a path inside the base directory: the
\* base followed by normal components only. Parent components never go
\* above the base (folder/../../../etc/passwd gives base/etc/passwd) and
\* the empty user path gives the base itself.
PathContainment ==
    /\ pathpc \in {"validated", "saved"}
         => /\ IsSome(ret_path) => Inside(Unwrap(ret_path), arg_base)
            /\ (pathpc = "validated" /\ arg_path = << >>)
                 => ret_path = Some(arg_base)
    /\ pathpc = "validated"
         => /\ validate_file_path(<< "uploads" >>,
                  << "a", "/", ".", ".", "/", ".", ".", "/", ".", ".", "/",
                     "e", "/", "p" >>)
                 = Some(<< "uploads", "/", "e", "/", "p" >>)
            /\ validate_file_path(<< "uploads" >>,
                  << ".", ".", "/", "e", "/", "p" >>)
                 = Some(<< "uploads", "/", "e", "/", "p" >>)
            /\ validate_file_path(<< "uploads" >>, << "t", ".", "m" >>)
                 = Some(<< "uploads", "/", "t", ".", "m" >>)

C27Witness ==
    /\ pathpc = "validated"
    /\ arg_base = << "uploads" >>
    /\ arg_path = << ".", ".", "/", "a" >>
    /\ ret_path = Some(<< "uploads", "/", "a" >>)

\* the last segment of path s that is neither empty nor a single dot
LastSegment(s) ==
    LET segs == Split(s)
        idx == {i \in 1..Len(segs) : segs[i] /= << >> /\ segs[i] /= << "." >>}
    IN  IF idx = {}
        THEN None
        ELSE Some(segs[CHOOSE i \in idx : \A k \in idx : k <= i])

\* the characters of s that sanitize_filename keeps
NotSpecial(c) == c \notin {"<", ">", ":", "\"", "|", "?", "*"}

Kept(s) == SelectSeq(s, NotSpecial)

\* the names sanitize_filename never returns
Refused == { << >>, << "." >>, << ".", "." >> }

\* C28: sanitize_filename returns None or the final path component of its
\* input without the characters < > : " | ? *; the result is never empty,
\* never "." or "..", and holds no separator; it is None exactly when the
\* input has no final component (empty, ".", ends in "..") or the filtered
\* component is empty, "." or "..".
SanitizeFilename ==
    pathpc \in {"sanitized", "saved"} =>
       LET seg == LastSegment(arg_path)
       IN  /\ ret_name = None
                <=> \/ seg = None
                    \/ Unwrap(seg) = << ".", "." >>
                    \/ Kept(Unwrap(seg)) \in Refused
           /\ IsSome(ret_name)
                => /\ Unwrap(ret_name) = Kept(Unwrap(seg))
                   /\ Unwrap(ret_name) \notin Refused
                   /\ \A i \in 1..Len(Unwrap(ret_name)) :
                         /\ Unwrap(ret_name)[i] /= "/"
                         /\ NotSpecial(Unwrap(ret_name)[i])
           /\ arg_path \in Refused => ret_name = None

C28Witness ==
    /\ pathpc = "sanitized"
    /\ arg_path = << ".", ".", "/", "a", ":" >>
    /\ ret_name = Some(<< "a" >>)

\* the outgoing task of c runs on after its incoming task ended
Lingering(c) == ~in_alive[c] /\ out_alive[c]

\* the end of the incoming task leaves the outgoing task as it is, and the
\* receiver of a lingering task still counts for send
NotCancelled(c) ==
    /\ (in_alive[c] /\ ~in_alive'[c]) => out_alive'[c] = out_alive[c]
    /\ Lingering(c)
         => send(hub_log, receiver_count(out_alive), MediaEvent)
               = Append(hub_log, MediaEvent)

\* C31 as stated: the handler returns when either task ends without
\* cancelling the other; the outgoing task that runs on after the incoming
\* task ended keeps its receiver and ends only on a message that was
\* published after the incoming task ended, by a failed send.
LingeringPumpStated ==
    [][\A c \in Conns :
         /\ NotCancelled(c)
         /\ (Lingering(c) /\ ~out_alive'[c])
              => /\ rx_next[c] >= closed_at[c]
                 /\ rx_next[c] < Len(hub_log)
                 /\ delivered'[c] = delivered[c]]_vars

\* C31, amended: the handler returns when either task ends without
\* cancelling the other; the outgoing task that runs on keeps its receiver
\* and ends only when it takes its next message from the channel, whether
\* that message was published before or after the incoming task ended,
\* and the send fails (or the receiver has lagged); while it has no unread
\* message and nothing is published it does not end.
LingeringPump ==
    [][\A c \in Conns :
         /\ NotCancelled(c)
         /\ (Lingering(c) /\ ~out_alive'[c])
              => /\ rx_next[c] < Len(hub_log)
                 /\ delivered'[c] = delivered[c]
                 /\ \/ rx_next'[c] = rx_next[c] + 1
                    \/ lagged(hub_log, rx_next[c])
         /\ (Lingering(c) /\ rx_next[c] = Len(hub_log'))
              => Lingering(c)']_vars

\* the outgoing task of c1 ran on after the close and ended on the message
\* published after it
C31Witness ==
    /\ ~in_alive["c1"] /\ ~out_alive["c1"]
    /\ sub_at["c1"] = 0
    /\ closed_at["c1"] = 1
    /\ delivered["c1"] = << 1 >>
    /\ rx_next["c1"] = 2
    /\ Len(hub_log) = 2

\* the number of unread messages the channel still holds for the receiver
\* of c: a message is dropped from the ring when the receiver lags
Retained(c) ==
    IF lagged(hub_log, rx_next[c]) THEN ring_size ELSE Backlog(c)

ServedFileExists ==
    [][\A r \in Requests :
         (vpc[r] = "read" /\ vpc'[r] = "mark")
            => Unwrap(vgot'[r]).filename \in uploads]_vars

\* C34: a new upload is offered to everyone. While the media slot holds an
\* unflagged item, get_last_media_for_ip returns it for every address that
\* has not been served this upload, also when the item has the filename of
\* an earlier upload that the address had viewed.
NewUploadOfferedToAll ==
    (IsSome(last_media) /\ ~Flagged(last_media))
       => \A v \in Viewers \ served :
             get_last_media_for_ip(last_media, viewed_by, v) = last_media

\* C35: notification order follows store-write order. When a handler
\* publishes an event of its upload, no handler whose slot write came later
\* has published the events of its upload yet: it still holds the store
\* lock or still has its "video" event to send.
NotifyInWriteOrder ==
    [][\A u \in Racers, w \in Racers :
         (Published /\ upc'[u] /= upc[u] /\ uid[w] > uid[u])
            => upc[w] \in {"locked", "video"}]_vars

\* a request for the hub lock is granted at once: the handler that holds
\* the store lock can publish and return, and a client can subscribe
HubLockFree ==
    /\ \A u \in Uploaders :
          /\ upc[u] = "locked" => ENABLED UploadRelease(u)
          /\ upc[u] = "slocked" => ENABLED UploadSoundRelease(u)
    /\ (~in_alive["c1"] /\ ~out_alive["c1"]) => ENABLED WsConnect("c1")

\* C36: deadlock freedom. Under fair scheduling every request for the
\* store lock is granted (upload handlers, the view handler's read and
\* write, the cleanup task's read and write), the handler that holds the
\* store lock while it asks for the hub lock releases both, and a request
\* for the hub lock never waits.
DeadlockFreedom ==
    /\ []HubLockFree
    /\ \A u \in Uploaders :
          /\ (upc[u] = "commit") ~> (upc[u] = "locked")
          /\ (upc[u] = "scommit") ~> (upc[u] = "slocked")
          /\ (writer = u) ~> (writer = NoTask)
    /\ (vpc["r1"] = "read") ~> (vpc["r1"] /= "read")
    /\ (vpc["r1"] = "mark") ~> (vpc["r1"] = "idle")
    /\ (spc = "sleep") ~> (spc = "loop")
    /\ (spc = "remove") ~> (spc = "loop")
    /\ (spc = "flag") ~> (spc = "loop")

\* the upload handler holds the store lock across its publish while the
\* view handler and the cleanup task wait for it and a viewer is connected
C36Witness ==
    /\ writer = "u1"
    /\ upc["u1"] = "locked"
    /\ vpc["r1"] = "mark"
    /\ spc = "remove"
    /\ in_alive["c1"]

\* both tasks of the connection c run
Open(c) == in_alive[c] /\ out_alive[c]

\* C37: in-order, exactly-once relay. While a connection stays open (its
\* backlog within the capacity), the messages sent on it are exactly those
\* published after its subscribe that its receiver has taken, each once and
\* in the order of publication; and every message published after the
\* subscribe is sent on it unless the connection ends (c names a later
\* connection once it has subscribed anew).
RelayInOrderOnce ==
    /\ [](\A c \in Conns :
            Open(c) => delivered[c] = [k \in 1..(rx_next[c] - sub_at[c])
                                          |-> sub_at[c] + k])
    /\ \A c \in Conns, i \in 1..MaxUploads :
          (Open(c) /\ sub_at[c] < i /\ i <= Len(hub_log))
             ~> \/ ~Open(c)
                \/ sub_at[c] >= i
                \/ /\ Len(delivered[c]) >= i - sub_at[c]
                   /\ delivered[c][i - sub_at[c]] = i

\* two messages were published to the open connection c1 before its
\* outgoing task ran, and both were sent since
C37Witness ==
    /\ Open("c1")
    /\ ~Open("c2")
    /\ sub_at["c1"] = 0
    /\ Len(hub_log) = 2
    /\ delivered["c1"] = << 1, 2 >>
    /\ rx_next["c1"] = 2

\* the handler u takes a step of a request that has not reached the store:
\* the request starts, writes its file, or ends without success
BeforeStore(u) ==
    /\ upc[u] \in {"idle", "commit", "scommit"}
    /\ upc'[u] \in {"idle", "commit", "scommit"}
    /\ upc'[u] /= upc[u] \/ started' /= started

\* C38: a rejected upload has no effect on shared state. No step of an
\* upload request that ends without success (it ends before or after its
\* file was written, never after state.write()) changes the media slot, the
\* sound slot or the ledger, and none publishes an event.
RejectedUploadNoEffect ==
    [][\A u \in Uploaders :
         BeforeStore(u)
            => /\ UNCHANGED << last_media, last_sound, viewed_by, hub_log >>
               /\ UNCHANGED << nextId, completed, writer >>]_vars

\* of two upload requests the second ended without success after its file
\* x.ogg was written: the slot, the ledger and the channel are those of the
\* first
C38Witness ==
    /\ started = 2
    /\ nextId = 2
    /\ upc["u1"] = "idle"
    /\ last_sound = None
    /\ Occupies(last_media, "a.jpg")
    /\ uploads = {"a.jpg", "x.ogg"}
    /\ sounds = {}
    /\ viewed_by /= << >>
    /\ Len(hub_log) = 1

====
